---- MODULE Spec2Model ----
(***************************************************************************)
(* The view counter of the profile page and its store.                     *)
(*                                                                         *)
(* Three implementations of the ViewCounter component are modelled:        *)
(*   "O"  src/src/components/ViewCounter.tsx  read-then-update, no guard,  *)
(*        no realtime channel                                              *)
(*   "A"  src/unnamed/part_004  read-then-update of the sentinel row,      *)
(*        guarded by hasIncrementedRef, UPDATE events                      *)
(*   "B"  src/unnamed/part_005  insert of one row per visit, count read,   *)
(*        guarded by hasIncrementedRef, INSERT events                      *)
(* Every session is one browser tab holding one component instance.  The   *)
(* store (table profile_views) and the realtime feed are shared.  Every    *)
(* await of the code is a point where other sessions, the store and the    *)
(* feed may take steps.                                                    *)
(***************************************************************************)
EXTENDS Integers, Sequences, FiniteSets, Bags, TLC

\* ---------------------------------------------------------------- bounds
NSessions == 2
MaxMounts == 3
MaxVisibilityChanges == 2
MaxInitial == 1

Sessions == 1..NSessions
Variants == {"O", "A", "B"}

\* viewCount before the first successful read: useState<number | null>(null)
Null == -1

VARIABLES
  variant,            \* which implementation the sessions run
  initial,            \* the store's count when the first session loads
  view_count,         \* variants O, A: the sentinel row's view_count
  rows,               \* variant B: cardinality of profile_views
  viewCount,          \* [session -> Null or number]: the component's state
  hasIncrementedRef,  \* [session -> BOOLEAN]
  channelRef,         \* [session -> Null or channel id]
  channels,           \* [session -> [active channel ids -> [state, queue]]]
  effectActive,       \* [session -> BOOLEAN]: effect run, cleanup not yet run
  listeners,          \* [session -> number of visibilitychange listeners]
  hidden,             \* [session -> document.hidden]
  tasks,              \* [session -> sequence of record-visit calls past the guard]
  reads,              \* [session -> bag of fetchViewCount calls in flight]
  writesIssued,       \* [session -> number of update/insert requests sent]
  lastVisible,        \* [session -> calls made by the last visibility handler run]
  regained,           \* [session -> BOOLEAN]: the read of the last visibility regain returned a count
  readOk,             \* [session -> BOOLEAN]: a count read of the session has succeeded
  failed,             \* a request of some session has failed
  applied,            \* [session -> BOOLEAN]: an event handler has set viewCount
  ignored,            \* [session -> BOOLEAN]: an INSERT event found viewCount null
  overlapped,         \* a read-then-update call started while another one was in flight
  nMounts,            \* runs of the mount effect so far, all sessions
  nVisibility         \* visibilitychange events so far, all sessions

\* The other components of the page: the Spotify sign-in hook, the Spotify
\* player hook, and the volume controls of the two music players.
VARIABLES
  localStorage,       \* useSpotifyAuth: the four items of STORAGE_KEYS
  url,                \* useSpotifyAuth: the query of window.location
  now,                \* useSpotifyAuth: Date.now()
  auth,               \* useSpotifyAuth: the hook's state and its requests in flight
  hook,               \* useSpotifyPlayer: the hook's state, playerRef and prop
  runs,               \* useSpotifyPlayer: the runs of the initialization effect
  sdk,                \* useSpotifyPlayer: the Web Playback SDK
  plays,              \* useSpotifyPlayer: play requests sent
  vol,                \* SpotifyPlayer: the volume control and the player's volume
  yt                  \* YouTubeMusicPlayer: the volume control and the YT player

viewVars == <<variant, initial, view_count, rows, viewCount, hasIncrementedRef,
          channelRef, channels, effectActive, listeners, hidden, tasks, reads,
          writesIssued, lastVisible, regained, readOk, applied, ignored,
          overlapped, failed, nMounts, nVisibility>>

authVars == <<localStorage, url, now, auth>>
playerVars == <<hook, runs, sdk, plays>>

\* Everything on the page but the view counter.
pageVars == <<authVars, playerVars, vol, yt>>

vars == <<viewVars, pageVars>>

\* A component that is not on the page.
AuthAbsent ==
  /\ localStorage = [accessToken |-> "null", refreshToken |-> "null",
                     tokenExpiry |-> <<>>, codeVerifier |-> "null"]
  /\ url = "none"
  /\ now = 0
  /\ auth = [phase |-> "absent"]

PlayerAbsent ==
  /\ hook = [phase |-> "absent"]
  /\ runs = <<>>
  /\ sdk = [loaded |-> FALSE, waiter |-> 0, connected |-> {}]
  /\ plays = 0

VolumeAbsent == vol = [phase |-> "absent"]

YouTubeAbsent == yt = [phase |-> "absent"]

storeVars == <<view_count, rows>>
budgetVars == <<nMounts, nVisibility>>

\* ------------------------------------------------------- reads in flight
\* A fetchViewCount call is "sent" until the store answers it, then carries
\* the answer until the awaiting code resumes.
\* `by` names the caller: the record-visit call ("record") or the visibility
\* handler ("visible").
ReadSent(by) == [st |-> "sent", v |-> 0, by |-> by]
ReadFailed(by) == [st |-> "fail", v |-> 0, by |-> by]
ReadOk(by, n) == [st |-> "ok", v |-> n, by |-> by]

BagAdd(b, e) == b (+) SetToBag({e})
BagRemove(b, e) == b (-) SetToBag({e})

\* ------------------------------------------------------------- channels
NoChannels == [c \in {} |-> 0]

NewChannel == [state |-> "joining", queue |-> <<>>]

\* supabase.removeChannel(c)
RemoveChannel(chs, c) == [d \in DOMAIN chs \ {c} |-> chs[d]]

FreshChannelId(chs) == CHOOSE c \in 1..(Cardinality(DOMAIN chs) + 1) : c \notin DOMAIN chs

\* The store commits a write: one event to every channel that has joined.
Emit(chs, payload) ==
  [c \in DOMAIN chs |->
     IF chs[c].state = "joined"
       THEN [chs[c] EXCEPT !.queue = Append(@, payload)]
       ELSE chs[c]]

Broadcast(payload) == [s \in Sessions |-> Emit(channels[s], payload)]

\* ------------------------------------------------- the component's code
\* fetchViewCount up to its await: the select is sent.
FetchViewCount(rd, by) == BagAdd(rd, ReadSent(by))

\* setupRealtimeChannel: the new pair (channels, channelRef).
\* The removal left out: the old channel stays subscribed.
SetupRemoved_kept(chs, ref) == chs

SetupRemoved(chs, ref) == IF ref # Null THEN RemoveChannel(chs, ref) ELSE chs

SetupRealtimeChannel(chs, ref) ==
  LET kept == SetupRemoved(chs, ref)
      id == FreshChannelId(kept)
  IN  [channels |-> [c \in DOMAIN kept \cup {id} |->
                       IF c = id THEN NewChannel ELSE kept[c]],
       channelRef |-> id]

\* The guard of incrementAndFetch / recordViewAndFetch.
Guarded == variant \in {"A", "B"}

\* The guard left out: every effect run records a visit.
PassesGuard_unguarded(s) == TRUE

\* The flag initialised to true: no effect run records a visit.
PassesGuard_never(s) == FALSE

PassesGuard(s) == ~(Guarded /\ hasIncrementedRef[s])

\* The first request of the record-visit call.
FirstRequest == IF variant = "B" THEN [pc |-> "insert", val |-> 0, res |-> "none"]
                                 ELSE [pc |-> "select", val |-> 0, res |-> "none"]

InFlight(t) == t.pc # "done"

SomeInFlight == \E s \in Sessions : \E i \in DOMAIN tasks[s] : InFlight(tasks[s][i])

\* A read-then-update call starts while another one has not finished.
Overlaps == variant # "B" /\ SomeInFlight

ViewCounterInit ==
  /\ variant \in Variants
  /\ initial \in 0..MaxInitial
  /\ view_count = initial
  /\ rows = initial
  /\ viewCount = [s \in Sessions |-> Null]
  /\ hasIncrementedRef = [s \in Sessions |-> FALSE]
  /\ channelRef = [s \in Sessions |-> Null]
  /\ channels = [s \in Sessions |-> NoChannels]
  /\ effectActive = [s \in Sessions |-> FALSE]
  /\ listeners = [s \in Sessions |-> 0]
  /\ hidden = [s \in Sessions |-> FALSE]
  /\ tasks = [s \in Sessions |-> <<>>]
  /\ reads = [s \in Sessions |-> EmptyBag]
  /\ writesIssued = [s \in Sessions |-> 0]
  /\ lastVisible = [s \in Sessions |-> <<>>]
  /\ regained = [s \in Sessions |-> FALSE]
  /\ overlapped = FALSE
  /\ applied = [s \in Sessions |-> FALSE]
  /\ ignored = [s \in Sessions |-> FALSE]
  /\ nMounts = 0
  /\ failed = FALSE
  /\ readOk = [s \in Sessions |-> FALSE]
  /\ nVisibility = 0

\* The page with the view counter alone.
Init == ViewCounterInit /\ AuthAbsent /\ PlayerAbsent /\ VolumeAbsent /\ YouTubeAbsent

\* The mount effect: the record-visit call up to its first await, then, in
\* the realtime variants, setupRealtimeChannel and addEventListener.
Mount(s) ==
  /\ ~effectActive[s]
  /\ nMounts < MaxMounts
  /\ nMounts' = nMounts + 1
  /\ effectActive' = [effectActive EXCEPT ![s] = TRUE]
  /\ IF PassesGuard(s)
       THEN /\ tasks' = [tasks EXCEPT ![s] = Append(@, FirstRequest)]
            /\ overlapped' = (overlapped \/ Overlaps)
            /\ hasIncrementedRef' = [hasIncrementedRef EXCEPT ![s] = Guarded]
            /\ writesIssued' = [writesIssued EXCEPT ![s] =
                                  IF variant = "B" THEN @ + 1 ELSE @]
       ELSE UNCHANGED <<tasks, hasIncrementedRef, writesIssued, overlapped>>
  /\ IF Guarded
       THEN LET r == SetupRealtimeChannel(channels[s], channelRef[s])
            IN  /\ channels' = [channels EXCEPT ![s] = r.channels]
                /\ channelRef' = [channelRef EXCEPT ![s] = r.channelRef]
                /\ listeners' = [listeners EXCEPT ![s] = @ + 1]
       ELSE UNCHANGED <<channels, channelRef, listeners>>
  /\ UNCHANGED <<pageVars, variant, initial, ignored, storeVars, viewCount, hidden, reads,
                 lastVisible, regained, applied, nVisibility, readOk, failed>>

\* The cleanup's removal: if (channelRef.current) removeChannel(...)
\* The removal left out: the channel outlives the cleanup.
CleanupRemoved_kept(chs, ref) == chs

CleanupRemoved(chs, ref) == IF ref # Null THEN RemoveChannel(chs, ref) ELSE chs

\* The effect's cleanup.  The original component returns no cleanup.
Cleanup(s) ==
  /\ effectActive[s]
  /\ effectActive' = [effectActive EXCEPT ![s] = FALSE]
  /\ IF Guarded
       THEN /\ channels' = [channels EXCEPT ![s] = CleanupRemoved(@, channelRef[s])]
            /\ channelRef' = [channelRef EXCEPT ![s] = Null]
            /\ listeners' = [listeners EXCEPT ![s] = @ - 1]
       ELSE UNCHANGED <<channels, channelRef, listeners>>
  /\ UNCHANGED <<pageVars, variant, initial, ignored, storeVars, viewCount, hasIncrementedRef,
                 hidden, tasks, reads, writesIssued, lastVisible, regained,
                 overlapped, applied, readOk,
                 failed,
                 budgetVars>>

\* handleVisibilityChange when the document is visible: the new
\* (reads, channels, channelRef) of the session.
CallFetch(st) ==
  [st EXCEPT !.reads = FetchViewCount(@, "visible"),
             !.calls = Append(@, "fetchViewCount")]

CallSetup(st) ==
  LET r == SetupRealtimeChannel(st.channels, st.channelRef)
  IN  [st EXCEPT !.channels = r.channels,
                 !.channelRef = r.channelRef,
                 !.calls = Append(@, "setupRealtimeChannel")]

\* The two calls in the other order.
HandleVisible_swapped(rd, chs, ref) ==
  CallFetch(CallSetup([reads |-> rd, channels |-> chs, channelRef |-> ref, calls |-> <<>>]))

HandleVisible(rd, chs, ref) ==
  CallSetup(CallFetch([reads |-> rd, channels |-> chs, channelRef |-> ref, calls |-> <<>>]))

\* if (document.hidden) return
\* The early return left out: a hidden document is handled like a visible one.
ReturnsEarly_never(isHidden) == FALSE

ReturnsEarly(isHidden) == isHidden

\* A visibilitychange event of the session's document, delivered to the
\* registered handler.
VisibilityChange(s) ==
  /\ listeners[s] > 0
  /\ nVisibility < MaxVisibilityChanges
  /\ nVisibility' = nVisibility + 1
  /\ hidden' = [hidden EXCEPT ![s] = ~@]
  /\ IF ReturnsEarly(hidden'[s])
       THEN UNCHANGED <<reads, channels, channelRef, lastVisible, regained>>
       ELSE LET h == HandleVisible(reads[s], channels[s], channelRef[s])
            IN  /\ reads' = [reads EXCEPT ![s] = h.reads]
                /\ channels' = [channels EXCEPT ![s] = h.channels]
                /\ channelRef' = [channelRef EXCEPT ![s] = h.channelRef]
                /\ lastVisible' = [lastVisible EXCEPT ![s] = h.calls]
                /\ regained' = [regained EXCEPT ![s] = FALSE]
  /\ UNCHANGED <<pageVars, variant, initial, ignored, storeVars, viewCount, hasIncrementedRef,
                 effectActive, listeners, tasks, writesIssued, overlapped,
                 applied, nMounts, readOk, failed>>

\* ------------------------------------------------------------ the store
\* The store answers a fetchViewCount select: the row count (variant B) or
\* the sentinel row's view_count (variant A).
StoreCount == IF variant = "B" THEN rows ELSE view_count

StoreAnswersRead(s) ==
  \E r \in BagToSet(reads[s]) :
    /\ r.st = "sent"
    /\ reads' = [reads EXCEPT ![s] = BagAdd(BagRemove(@, r), ReadOk(r.by, StoreCount))]
    /\ UNCHANGED <<pageVars, variant, initial, ignored, storeVars, viewCount, hasIncrementedRef,
                   channelRef, channels, effectActive, listeners, hidden,
                   tasks, writesIssued, lastVisible, regained, overlapped,
                   applied, readOk,
                 failed,
                 budgetVars>>

\* fetchViewCount after its await: if (count !== null) setViewCount(count)
\* (variant A: if (data) setViewCount(data.view_count)).
\* A failed read shown as zero: setViewCount(count ?? 0).
AfterFetch_zero(prev, r) == IF r.st = "ok" THEN r.v ELSE 0

AfterFetch(prev, r) == IF r.st = "ok" THEN r.v ELSE prev

\* The await of a fetchViewCount call resolves: with the store's answer, or,
\* for a select that never reached the store, with count (data) null.
ReadReturns(s) ==
  \E r \in BagToSet(reads[s]) :
    /\ reads' = [reads EXCEPT ![s] = BagRemove(@, r)]
    /\ LET a == IF r.st = "sent" THEN ReadFailed(r.by) ELSE r
       IN  /\ viewCount' = [viewCount EXCEPT ![s] = AfterFetch(@, a)]
           /\ regained' = [regained EXCEPT ![s] =
                 IF r.by = "visible" /\ ~\E q \in BagToSet(reads'[s]) : q.by = "visible"
                   THEN a.st = "ok" ELSE @]
    /\ UNCHANGED <<pageVars, variant, initial, ignored, storeVars, hasIncrementedRef, channelRef,
                   channels, effectActive, listeners, hidden, tasks,
                   writesIssued, lastVisible, overlapped, applied, budgetVars>>
    /\ failed' = (failed \/ r.st = "sent")
    /\ readOk' = [readOk EXCEPT ![s] = @ \/ r.st = "ok"]

\* Variant B: the store commits the insert of one row.  The event carries
\* the new row, here named by the session that inserted it.
StoreInserts(s, i) ==
  /\ tasks[s][i].pc = "insert"
  /\ rows' = rows + 1
  /\ channels' = Broadcast(s)
  /\ tasks' = [tasks EXCEPT ![s][i].pc = "insert_ok"]
  /\ UNCHANGED <<pageVars, variant, initial, ignored, view_count, viewCount, hasIncrementedRef,
                 channelRef, effectActive, listeners, hidden, reads,
                 writesIssued, lastVisible, regained, overlapped, applied, readOk,
                 failed,
                 budgetVars>>

\* Variants O and A: the store answers the select of the sentinel row.
StoreSelects(s, i) ==
  /\ tasks[s][i].pc = "select"
  /\ tasks' = [tasks EXCEPT ![s][i] = [@ EXCEPT !.pc = "select_ok", !.val = view_count]]
  /\ UNCHANGED <<pageVars, variant, initial, ignored, storeVars, viewCount, hasIncrementedRef,
                 channelRef, channels, effectActive, listeners, hidden, reads,
                 writesIssued, lastVisible, regained, overlapped, applied, readOk,
                 failed,
                 budgetVars>>

\* Variants O and A: the store commits the update of the sentinel row.
StoreUpdates(s, i) ==
  /\ tasks[s][i].pc = "update"
  /\ view_count' = tasks[s][i].val
  /\ channels' = Broadcast(view_count')
  /\ tasks' = [tasks EXCEPT ![s][i].pc = "update_ok"]
  /\ UNCHANGED <<pageVars, variant, initial, ignored, rows, viewCount, hasIncrementedRef,
                 channelRef, effectActive, listeners, hidden, reads,
                 writesIssued, lastVisible, regained, overlapped, applied, readOk,
                 failed,
                 budgetVars>>

\* --------------------------------------- the record-visit call resumes
\* An await of the call resolves with the store's answer once the store has
\* answered, or with an error for a request that never reached the store.
Outcome(pc) == IF pc \in {"insert_ok", "update_ok"} THEN "ok" ELSE "err"

Done(t) == [pc |-> "done", val |-> 0, res |-> Outcome(t.pc)]

\* Variant B, after `await insert({})`: await fetchViewCount().
InsertReturns(s, i) ==
  /\ tasks[s][i].pc \in {"insert_ok", "insert"}
  /\ tasks' = [tasks EXCEPT ![s][i] = Done(@)]
  /\ reads' = [reads EXCEPT ![s] = FetchViewCount(@, "record")]
  /\ UNCHANGED <<pageVars, variant, initial, ignored, storeVars, viewCount, hasIncrementedRef,
                 channelRef, channels, effectActive, listeners, hidden,
                 writesIssued, lastVisible, regained, overlapped, applied, readOk,
                 budgetVars>>
  /\ failed' = (failed \/ tasks[s][i].pc \in {"select","insert","update"})

\* Variants O and A, after the select: newCount = view_count + 1.
\* The increment left out: the value read is written back.
NewCount_same(current) == current

NewCount(current) == current + 1

\* if (currentData) { ...update({view_count: newCount}) }
SelectReturns(s, i) ==
  /\ tasks[s][i].pc \in {"select_ok", "select"}
  /\ IF tasks[s][i].pc = "select_ok"
       THEN /\ tasks' = [tasks EXCEPT ![s][i] =
                           [@ EXCEPT !.pc = "update", !.val = NewCount(@)]]
            /\ writesIssued' = [writesIssued EXCEPT ![s] = @ + 1]
       ELSE /\ tasks' = [tasks EXCEPT ![s][i] = Done(@)]
            /\ UNCHANGED writesIssued
  /\ UNCHANGED <<pageVars, variant, initial, ignored, storeVars, viewCount, hasIncrementedRef,
                 channelRef, channels, effectActive, listeners, hidden, reads,
                 lastVisible, regained, overlapped, applied, budgetVars>>
  /\ failed' = (failed \/ tasks[s][i].pc \in {"select","insert","update"})
  /\ readOk' = [readOk EXCEPT ![s] = @ \/ tasks[s][i].pc = "select_ok"]

\* Variants O and A, after `await update(...)`: setViewCount(newCount).
UpdateReturns(s, i) ==
  /\ tasks[s][i].pc \in {"update_ok", "update"}
  /\ viewCount' = [viewCount EXCEPT ![s] = tasks[s][i].val]
  /\ tasks' = [tasks EXCEPT ![s][i] = Done(@)]
  /\ UNCHANGED <<pageVars, variant, initial, ignored, storeVars, hasIncrementedRef, channelRef,
                 channels, effectActive, listeners, hidden, reads,
                 writesIssued, lastVisible, regained, overlapped, applied, readOk,
                 budgetVars>>
  /\ failed' = (failed \/ tasks[s][i].pc \in {"select","insert","update"})

\* ------------------------------------------------------ the realtime feed
\* The feed acknowledges the subscription of a channel.
ChannelJoins(s, c) ==
  /\ channels[s][c].state = "joining"
  /\ channels' = [channels EXCEPT ![s][c].state = "joined"]
  /\ UNCHANGED <<pageVars, variant, initial, ignored, storeVars, viewCount, hasIncrementedRef,
                 channelRef, effectActive, listeners, hidden, tasks, reads,
                 writesIssued, lastVisible, regained, overlapped, applied, readOk,
                 failed,
                 budgetVars>>

\* Variant B's handler: setViewCount((prev) => (prev !== null ? prev + 1 : null))
\* Variant A's handler left in variant B.
OnInsert_payload(prev, payload) == payload

\* A missing baseline counted as zero: (prev ?? 0) + 1.
OnInsert_fromNull(prev, payload) == IF prev # Null THEN prev + 1 ELSE 1

OnInsert(prev, payload) == IF prev # Null THEN prev + 1 ELSE Null

\* Variant A's handler: setViewCount(newData.view_count)
\* Variant B's handler left in variant A.
OnUpdate_increment(prev, payload) == IF prev # Null THEN prev + 1 ELSE Null

OnUpdate(prev, payload) == payload

\* The feed delivers the oldest event of a channel to the channel's handler.
EventDelivered(s, c) ==
  /\ channels[s][c].state = "joined"
  /\ channels[s][c].queue # <<>>
  /\ channels' = [channels EXCEPT ![s][c].queue = Tail(@)]
  /\ viewCount' = [viewCount EXCEPT ![s] =
                     IF variant = "B" THEN OnInsert(@, Head(channels[s][c].queue))
                                      ELSE OnUpdate(@, Head(channels[s][c].queue))]
  /\ applied' = [applied EXCEPT ![s] = @ \/ viewCount'[s] # Null]
  /\ ignored' = [ignored EXCEPT ![s] = @ \/ (variant = "B" /\ viewCount[s] = Null)]
  /\ UNCHANGED <<pageVars, variant, initial, storeVars, hasIncrementedRef, channelRef,
                 effectActive, listeners, hidden, tasks, reads, writesIssued,
                 lastVisible, regained, overlapped, readOk,
                 failed,
                 budgetVars>>

\* ------------------------------------------------------------ rendering
\* viewCount.toLocaleString() for the counts of the model (below 1000, where
\* no grouping separator is inserted): the decimal digits.
RECURSIVE Digits(_)
Digits(n) == IF n < 10 THEN <<n>> ELSE Append(Digits(n \div 10), n % 10)

\* `if (viewCount === null) return null`, else the span "<count> views".
Render(vc) == IF vc = Null THEN <<>> ELSE <<Digits(vc), "views">>

Next ==
  \/ \E s \in Sessions : Mount(s)
  \/ \E s \in Sessions : Cleanup(s)
  \/ \E s \in Sessions : VisibilityChange(s)
  \/ \E s \in Sessions : StoreAnswersRead(s)
  \/ \E s \in Sessions : ReadReturns(s)
  \/ \E s \in Sessions : \E i \in DOMAIN tasks[s] : StoreInserts(s, i)
  \/ \E s \in Sessions : \E i \in DOMAIN tasks[s] : StoreSelects(s, i)
  \/ \E s \in Sessions : \E i \in DOMAIN tasks[s] : StoreUpdates(s, i)
  \/ \E s \in Sessions : \E i \in DOMAIN tasks[s] : InsertReturns(s, i)
  \/ \E s \in Sessions : \E i \in DOMAIN tasks[s] : SelectReturns(s, i)
  \/ \E s \in Sessions : \E i \in DOMAIN tasks[s] : UpdateReturns(s, i)
  \/ \E s \in Sessions : \E c \in DOMAIN channels[s] : ChannelJoins(s, c)
  \/ \E s \in Sessions : \E c \in DOMAIN channels[s] : EventDelivered(s, c)

Spec == Init /\ [][Next]_vars

\* ------------------------------------------------- successive page loads
\* The tab loads the page again: a new component instance, in the state after
\* construction (useState(null), useRef(false), useRef(null)).  The instance
\* before it was torn down and every request it sent has resolved.
NewInstance(s) ==
  /\ Guarded /\ hasIncrementedRef[s]
  /\ ~effectActive[s]
  /\ \A i \in DOMAIN tasks[s] : ~InFlight(tasks[s][i])
  /\ reads[s] = EmptyBag
  /\ viewCount' = [viewCount EXCEPT ![s] = Null]
  /\ hasIncrementedRef' = [hasIncrementedRef EXCEPT ![s] = FALSE]
  /\ tasks' = [tasks EXCEPT ![s] = <<>>]
  /\ writesIssued' = [writesIssued EXCEPT ![s] = 0]
  /\ lastVisible' = [lastVisible EXCEPT ![s] = <<>>]
  /\ regained' = [regained EXCEPT ![s] = FALSE]
  /\ readOk' = [readOk EXCEPT ![s] = FALSE]
  /\ applied' = [applied EXCEPT ![s] = FALSE]
  /\ ignored' = [ignored EXCEPT ![s] = FALSE]
  /\ UNCHANGED <<pageVars, variant, initial, storeVars, channelRef, channels,
                 effectActive, listeners, hidden, reads, overlapped, failed,
                 budgetVars>>

\* Page sessions that follow one another in a tab, with no visibility events.
NextInstances ==
  \/ \E s \in Sessions : Mount(s)
  \/ \E s \in Sessions : Cleanup(s)
  \/ \E s \in Sessions : NewInstance(s)
  \/ \E s \in Sessions : StoreAnswersRead(s)
  \/ \E s \in Sessions : ReadReturns(s)
  \/ \E s \in Sessions : \E i \in DOMAIN tasks[s] : StoreInserts(s, i)
  \/ \E s \in Sessions : \E i \in DOMAIN tasks[s] : StoreSelects(s, i)
  \/ \E s \in Sessions : \E i \in DOMAIN tasks[s] : StoreUpdates(s, i)
  \/ \E s \in Sessions : \E i \in DOMAIN tasks[s] : InsertReturns(s, i)
  \/ \E s \in Sessions : \E i \in DOMAIN tasks[s] : SelectReturns(s, i)
  \/ \E s \in Sessions : \E i \in DOMAIN tasks[s] : UpdateReturns(s, i)
  \/ \E s \in Sessions : \E c \in DOMAIN channels[s] : ChannelJoins(s, c)
  \/ \E s \in Sessions : \E c \in DOMAIN channels[s] : EventDelivered(s, c)

SpecInstances == Init /\ [][NextInstances]_vars

\* ================================================================ claims
RECURSIVE SumTo(_, _)
SumTo(f, n) == IF n = 0 THEN 0 ELSE f[n] + SumTo(f, n - 1)

\* Record-visit calls that passed the guard, all sessions.
NTasks == SumTo([s \in Sessions |-> Len(tasks[s])], NSessions)

AllTasks == {<<s, i>> \in Sessions \X (1..MaxMounts) : i \in DOMAIN tasks[s]}

\* Sessions whose write the store has committed.
Committed(t) == t.pc \in {"insert_ok", "update_ok"} \/ t.res = "ok"

SessionsCommitted == {s \in Sessions : \E i \in DOMAIN tasks[s] : Committed(tasks[s][i])}

\* C1: in the guarded implementations (variants A and B) a component
\* instance sends at most one durable write, however often its mount effect
\* runs: a later run finds hasIncrementedRef set and sends no request at all.
C1_AtMostOneWrite ==
  Guarded => \A s \in Sessions : writesIssued[s] <= 1 /\ Len(tasks[s]) <= 1

\* One session ran its effect at least twice (the other never mounted), its
\* record-visit call has finished, and it sent exactly one write.
C1_Witness ==
  /\ Guarded
  /\ \E s \in Sessions :
       /\ nMounts >= 2
       /\ \A t \in Sessions \ {s} : ~hasIncrementedRef[t]
       /\ effectActive[s]
       /\ writesIssued[s] = 1
       /\ tasks[s][1].pc = "done"

\* C2: variant B: the cardinality of profile_views is the initial
\* cardinality plus the number of sessions whose insert the store committed,
\* in every state of every interleaving (so also at quiescence): no insert
\* is lost and none is duplicated.
C2_Exact ==
  variant = "B" => rows = initial + Cardinality(SessionsCommitted)

\* Both sessions' inserts are committed while both calls are still awaiting
\* the answer: two concurrent recorded visits.
C2_Witness ==
  /\ variant = "B"
  /\ \A s \in Sessions : Len(tasks[s]) = 1 /\ tasks[s][1].pc = "insert_ok"
  /\ rows = initial + NSessions

\* C3: variants A and O: when the read-then-update calls ran strictly one
\* after another and every read and update succeeded, the sentinel row's
\* view_count is its initial value plus the number of calls.
AllSucceeded == \A p \in AllTasks : tasks[p[1]][p[2]].res = "ok"

C3_Sequential ==
  (variant \in {"A", "O"} /\ ~overlapped /\ ~SomeInFlight /\ AllSucceeded)
    => view_count = initial + NTasks

\* Two sessions recorded one visit each, one after the other.
C3_Witness ==
  /\ variant \in {"A", "O"}
  /\ ~overlapped /\ ~SomeInFlight /\ AllSucceeded
  /\ \A s \in Sessions : Len(tasks[s]) = 1
  /\ view_count = initial + NSessions

\* C4: variant B: a page load is never counted twice in the display: in
\* every reachable state a session's displayed viewCount is at most the
\* cardinality of profile_views.
C4_NoDoubleCount ==
  variant = "B" => \A s \in Sessions : viewCount[s] <= rows

\* Events queued for a session's handlers, all its channels together.
RECURSIVE QueueTotal(_, _)
QueueTotal(chs, D) ==
  IF D = {} THEN 0
  ELSE LET c == CHOOSE c \in D : TRUE
       IN  Len(chs[c].queue) + QueueTotal(chs, D \ {c})

Queued(chs) == QueueTotal(chs, DOMAIN chs)

\* The feed hands the oldest event of channel c to session s's handler.
EventHandled(s, c) ==
  /\ c \in DOMAIN channels[s] /\ c \in DOMAIN channels'[s]
  /\ channels[s][c].state = "joined" /\ channels'[s][c].state = "joined"
  /\ channels[s][c].queue # <<>>
  /\ channels'[s][c].queue = Tail(channels[s][c].queue)

\* C5: in the realtime variants a component instance never holds more than
\* one subscription, and the one it holds is the one in channelRef; so a
\* committed store write adds at most one event for the instance's handler.
C5_OneSubscription ==
  /\ [](Guarded => \A s \in Sessions : DOMAIN channels[s] \subseteq {channelRef[s]})
  /\ [][\A s \in Sessions : Queued(channels'[s]) <= Queued(channels[s]) + 1]_vars

\* A session that mounted and regained visibility holds exactly one channel,
\* the re-created one, and a committed write is queued on it once.
C5_Witness ==
  /\ Guarded
  /\ \E s \in Sessions :
       /\ lastVisible[s] # <<>>
       /\ channelRef[s] # Null
       /\ DOMAIN channels[s] = {channelRef[s]}
       /\ Len(channels[s][channelRef[s]].queue) = 1

\* A failed fetchViewCount read of session s resolves in this step.
ReadFailsNow(s) ==
  \E r \in BagToSet(reads[s]) : r.st = "sent" /\ reads'[s] = BagRemove(reads[s], r)

ZeroFromReadOnly(s) ==
  /\ ReadFailsNow(s) => viewCount'[s] = viewCount[s]
  /\ (viewCount'[s] = 0 /\ viewCount[s] # 0) =>
       \E r \in BagToSet(reads[s]) :
         r.st = "ok" /\ r.v = 0 /\ reads'[s] = BagRemove(reads[s], r)
  /\ \A r \in BagToSet(reads[s]) :
       (r.st = "ok" /\ r.v = 0 /\ reads'[s] = BagRemove(reads[s], r)) => viewCount'[s] = 0

RendersUnknownAndZero ==
  \A s \in Sessions :
    /\ (Render(viewCount[s]) = <<>>) <=> (viewCount[s] = Null)
    /\ viewCount[s] = 0 => Render(viewCount[s]) = <<<<0>>, "views">>

\* C6 as stated: viewCount is null until a read of the session succeeds; a
\* failed read never sets it to 0; a successful read of 0 sets it to 0, which
\* is rendered as "0 views", null as nothing.
C6_NullUntilReadSucceeds ==
  /\ []RendersUnknownAndZero
  /\ [](\A s \in Sessions : viewCount[s] # Null => readOk[s])
  /\ [][\A s \in Sessions : ZeroFromReadOnly(s)]_vars

\* C6 amended: viewCount leaves null only when a read of the session
\* succeeds or, in variant A, when an UPDATE event is delivered; a failed
\* read never changes it; it becomes 0 only by a successful read of 0, and a
\* successful read of 0 sets it to 0; null renders nothing and 0 renders
\* "0 views".
C6_UnknownIsNotZero ==
  /\ []RendersUnknownAndZero
  /\ [](\A s \in Sessions : viewCount[s] # Null => (readOk[s] \/ (variant = "A" /\ applied[s])))
  /\ [][\A s \in Sessions : ZeroFromReadOnly(s)]_vars

\* A successful read of 0 has set viewCount to 0 and "0 views" is rendered.
C6_Witness ==
  \E s \in Sessions :
    /\ viewCount[s] = 0
    /\ Render(viewCount[s]) = <<<<0>>, "views">>
    /\ rows = 0 /\ view_count = 0

\* C7: variant B: when the handler of a session that displays a count n gets
\* an INSERT event, the display becomes n + 1 and the session sends no
\* request to the store.
C7_InsertIncrements ==
  [][\A s \in Sessions : \A c \in DOMAIN channels[s] :
       (variant = "B" /\ EventHandled(s, c) /\ viewCount[s] # Null) =>
          /\ viewCount'[s] = viewCount[s] + 1
          /\ reads'[s] = reads[s]
          /\ tasks'[s] = tasks[s]
          /\ writesIssued'[s] = writesIssued[s]]_vars

\* The table was empty, session s recorded its visit and read 1, the other
\* session recorded a visit, and s's handler made the display 2 with no
\* visibility re-fetch.
C7_Witness ==
  /\ variant = "B" /\ initial = 0 /\ rows = 2
  /\ \E s \in Sessions :
       /\ applied[s]
       /\ viewCount[s] = 2
       /\ lastVisible[s] = <<>>
       /\ reads[s] = EmptyBag
       /\ channelRef[s] # Null /\ channels[s][channelRef[s]].queue = <<>>

\* C8: variant A: when the handler of a session gets an UPDATE event, the
\* display becomes the view_count of the event's payload, whatever was
\* displayed before.
C8_UpdateVerbatim ==
  [][\A s \in Sessions : \A c \in DOMAIN channels[s] :
       (variant = "A" /\ EventHandled(s, c)) =>
          viewCount'[s] = Head(channels[s][c].queue)]_vars

\* A subscriber whose own select failed and that never re-fetched displays
\* the count another session wrote (initial + 1), taken from the event.
C8_Witness ==
  /\ variant = "A" /\ view_count = initial + 1
  /\ \E s \in Sessions :
       /\ applied[s]
       /\ Len(tasks[s]) = 1 /\ tasks[s][1].pc = "done" /\ tasks[s][1].res = "err"
       /\ writesIssued[s] = 0
       /\ lastVisible[s] = <<>>
       /\ viewCount[s] = view_count

Resynchronized(s) ==
  /\ regained[s]
  /\ reads[s] = EmptyBag
  /\ channelRef[s] # Null
  /\ channels[s][channelRef[s]].state = "joined"
  /\ channels[s][channelRef[s]].queue = <<>>
  /\ ~SomeInFlight
  /\ ~failed

\* C10: variant B: after a visibility regain, once the count read has
\* returned, all pending INSERT events are delivered and no visit is being
\* recorded, the displayed count is the cardinality of profile_views.
C10_NoDrift ==
  variant = "B" => \A s \in Sessions : Resynchronized(s) => viewCount[s] = rows

\* C11: variants A and O: no increment is lost, overlapping calls included:
\* once no read-then-update call is in flight and the read and the update of
\* every call succeeded, view_count is the initial value plus the number of
\* calls.
C11_NoLostUpdate ==
  (variant \in {"A", "O"} /\ ~SomeInFlight /\ AllSucceeded)
    => view_count = initial + NTasks

\* C12: variant A: the sentinel row's view_count is never negative and no
\* store write lowers it, over three page sessions whose read-then-update
\* calls interleave.
C12_Monotonic ==
  /\ [](variant = "A" => view_count >= 0)
  /\ [][variant = "A" => view_count' >= view_count]_vars

\* C13: variants A and O: when the update of a record-visit call fails, the
\* call ends and the session's viewCount is left as it was.
C13_FailedUpdateNotShown ==
  [][\A s \in Sessions : \A i \in DOMAIN tasks[s] :
       (tasks[s][i].pc = "update" /\ tasks'[s][i].pc = "done")
          => viewCount'[s] = viewCount[s]]_vars

\* C14: in the realtime variants, while the effect of an instance is torn
\* down the instance has no channel (channelRef is null and the client holds
\* no channel of it) and no visibilitychange listener, and no event is handed
\* to a handler of it.
C14_TornDown ==
  /\ [](Guarded => \A s \in Sessions :
           ~effectActive[s] =>
              /\ channelRef[s] = Null
              /\ DOMAIN channels[s] = {}
              /\ listeners[s] = 0)
  /\ [][\A s \in Sessions : \A c \in DOMAIN channels[s] :
         (Guarded /\ ~effectActive[s]) => ~EventHandled(s, c)]_vars

\* Session s showed a count and was torn down; another session's write was
\* committed and queued for that session, and s still shows the old count.
C14_Witness ==
  /\ Guarded
  /\ \E s \in Sessions :
       /\ ~effectActive[s] /\ hasIncrementedRef[s]
       /\ channelRef[s] = Null
       /\ viewCount[s] # Null /\ viewCount[s] < StoreCount
       /\ \E u \in Sessions \ {s} :
            channelRef[u] # Null /\ channels[u][channelRef[u]].queue # <<>>

\* C15: in the realtime variants no step changes the viewCount of an
\* instance whose effect is torn down: the result of a read or of a
\* record-visit call that resolves after the cleanup is discarded.
C15_StaleDiscarded ==
  [][\A s \in Sessions :
       (Guarded /\ ~effectActive[s] /\ ~effectActive'[s])
          => viewCount'[s] = viewCount[s]]_vars

\* C16: in the guarded variants a record-visit call that passed the guard
\* and has finished has sent exactly one durable write.
C16_ExactlyOneWrite ==
  Guarded => \A s \in Sessions :
    (tasks[s] # <<>> /\ ~InFlight(tasks[s][1])) => writesIssued[s] = 1

\* The component renders nothing or the count: it has no error state.
NoErrorState(s) ==
  \/ Render(viewCount[s]) = <<>>
  \/ Render(viewCount[s]) = <<Digits(viewCount[s]), "views">>

\* C17 as stated: as long as no read of the session has succeeded,
\* viewCount is null and nothing is rendered.
C17_AbsentUntilRead ==
  \A s \in Sessions :
    /\ NoErrorState(s)
    /\ ~readOk[s] => (viewCount[s] = Null /\ Render(viewCount[s]) = <<>>)

\* C17 amended: as long as no read of the session has succeeded and, in
\* variant A, no UPDATE event has been handled, viewCount is null and nothing
\* is rendered, whatever failed; the component has no error state.
C17_AbsentUntilReadOrEvent ==
  \A s \in Sessions :
    /\ NoErrorState(s)
    /\ (~readOk[s] /\ ~(variant = "A" /\ applied[s]))
         => (viewCount[s] = Null /\ Render(viewCount[s]) = <<>>)

\* Variant B: the session's insert and both its reads (the one of the call
\* and the one of a visibility regain) failed while another visit was
\* recorded: it still renders nothing.
C17_Witness ==
  /\ variant = "B" /\ failed /\ rows > initial
  /\ \E s \in Sessions :
       /\ tasks[s] # <<>> /\ tasks[s][1].res = "err"
       /\ lastVisible[s] # <<>>
       /\ reads[s] = EmptyBag
       /\ ~readOk[s]
       /\ Render(viewCount[s]) = <<>>

\* C18: the original component sends at most one update of the sentinel row
\* per instance, however often its mount effect runs.
C18_OriginalOnce ==
  variant = "O" => \A s \in Sessions : writesIssued[s] <= 1

\* Session s holds a joined channel with no event pending.
Live(s) ==
  /\ channelRef[s] # Null
  /\ channels[s][channelRef[s]].state = "joined"
  /\ channels[s][channelRef[s]].queue = <<>>

\* C19: variant A: once every recording has finished with no failure, no
\* read is in flight and no visibility re-fetch was made, every session that
\* recorded its visit and holds a joined channel with no event pending
\* displays the sentinel row's view_count.
C19_StaysLive ==
  (/\ variant = "A"
   /\ ~SomeInFlight /\ ~failed
   /\ \A s \in Sessions : reads[s] = EmptyBag /\ lastVisible[s] = <<>>)
    => \A s \in Sessions :
         (Live(s) /\ tasks[s] # <<>>) => viewCount[s] = view_count

\* A fetchViewCount select of session s is sent in this step.
ReadIssued(s) ==
  \E by \in {"record", "visible"} : reads'[s] = BagAdd(reads[s], ReadSent(by))

\* C20: variant B: whenever an instance sends a count read, it has sent its
\* insert in an earlier step: no count read is sent before the insert.
C20_InsertBeforeRead ==
  [][\A s \in Sessions :
       (variant = "B" /\ ReadIssued(s)) => writesIssued[s] >= 1]_vars

\* The first count read of an instance is in flight, after its insert
\* returned.
C20_Witness ==
  /\ variant = "B"
  /\ \E s \in Sessions :
       /\ writesIssued[s] = 1
       /\ tasks[s][1].pc = "done"
       /\ reads[s] = SetToBag({ReadSent("record")})
       /\ ~readOk[s] /\ lastVisible[s] = <<>>

\* A successful count read of session s resolves in this step with answer r.
ReadOkNow(s, r) ==
  r \in BagToSet(reads[s]) /\ r.st = "ok" /\ reads'[s] = BagRemove(reads[s], r)

\* C21: variant B: an INSERT event handed to a session whose viewCount is
\* null leaves it null and changes nothing else of the session; and the
\* baseline that arrives later is shown as read: viewCount becomes the read's
\* count, with nothing added for events that came before it.
C21_NoBaselineNoCount ==
  /\ [][\A s \in Sessions : \A c \in DOMAIN channels[s] :
         (variant = "B" /\ EventHandled(s, c) /\ viewCount[s] = Null) =>
            /\ viewCount'[s] = Null
            /\ reads'[s] = reads[s]
            /\ tasks'[s] = tasks[s]
            /\ hasIncrementedRef'[s] = hasIncrementedRef[s]
            /\ channelRef'[s] = channelRef[s]]_vars
  /\ [][\A s \in Sessions : \A r \in BagToSet(reads[s]) :
         (variant = "B" /\ ReadOkNow(s, r)) => viewCount'[s] = r.v]_vars

\* An INSERT event found the session without a baseline; the baseline then
\* arrived and the session shows the row count, the ignored event not added.
C21_Witness ==
  /\ variant = "B"
  /\ \E s \in Sessions :
       /\ ignored[s] /\ ~applied[s]
       /\ readOk[s]
       /\ reads[s] = EmptyBag
       /\ viewCount[s] = rows

\* C22: in the realtime variants a visibilitychange event that finds the
\* document hidden changes nothing of the session or the store; and no
\* visibilitychange event, hidden or visible, starts a record-visit call or
\* sends a write.
C22_HiddenChangesNothing ==
  /\ [][\A s \in Sessions :
         (Guarded /\ ~hidden[s] /\ hidden'[s]) =>
            /\ reads'[s] = reads[s]
            /\ channels'[s] = channels[s]
            /\ channelRef'[s] = channelRef[s]
            /\ viewCount'[s] = viewCount[s]
            /\ lastVisible'[s] = lastVisible[s]]_vars
  /\ [][(\E s \in Sessions : hidden'[s] # hidden[s]) =>
            /\ tasks' = tasks
            /\ writesIssued' = writesIssued
            /\ hasIncrementedRef' = hasIncrementedRef
            /\ storeVars' = storeVars]_vars

\* A subscribed session that shows a count was hidden: its channel is still
\* the one of the mount effect and no read was sent.
C22_Witness ==
  /\ Guarded
  /\ \E s \in Sessions :
       /\ hidden[s]
       /\ lastVisible[s] = <<>>
       /\ reads[s] = EmptyBag
       /\ viewCount[s] # Null
       /\ channelRef[s] # Null /\ channels[s][channelRef[s]].state = "joined"

\* ------------------------------------------------------------------------
\* useSpotifyPlayer (pages/Index.tsx): the hook that owns the Web Playback
\* SDK player.  A player is named by the number of the effect run that
\* created it; 0 stands for null.
\* ------------------------------------------------------------------------

MaxRuns == 3          \* runs of the initialization effect that get a token
MaxPlays == 2         \* play requests sent

NoToken == "null"
Tokens == {"token1", "token2"}

\* The hook as constructed: useRef(null) and the useState initial values;
\* the first render gets the accessToken of useSpotifyAuth, which is null.
PlayerInit ==
  /\ hook = [phase |-> "new", accessToken |-> NoToken, playerRef |-> 0,
             isReady |-> FALSE, isActive |-> FALSE, deviceId |-> 0,
             error |-> FALSE, playerState |-> FALSE, current |-> 0]
  /\ runs = <<>>
  /\ sdk = [loaded |-> FALSE, waiter |-> 0, connected |-> {}]
  /\ plays = 0

\* The cleanup of the effect run that is current, if there is one:
\* mounted = false, then disconnect and forget the player playerRef holds.
AfterCleanup(st) ==
  IF st.hook.current = 0 THEN st
  ELSE [hook |-> [st.hook EXCEPT !.playerRef = 0, !.current = 0],
        runs |-> [st.runs EXCEPT ![st.hook.current].mounted = FALSE],
        sdk  |-> [st.sdk EXCEPT !.connected = @ \ {st.hook.playerRef}]]

\* loadSpotifySDK: resolved at once when window.Spotify is there; otherwise
\* this call's resolve replaces window.onSpotifyWebPlaybackSDKReady.
LoadSpotifySDK(s, r) ==
  IF s.loaded THEN s ELSE [s EXCEPT !.waiter = r]

\* The body of the initialization effect for the given accessToken.
AfterEffect(st, token) ==
  IF token = NoToken
  THEN [hook |-> [st.hook EXCEPT !.accessToken = token, !.playerRef = 0,
                                 !.isReady = FALSE, !.isActive = FALSE,
                                 !.deviceId = 0],
        runs |-> st.runs,
        sdk  |-> [st.sdk EXCEPT !.connected = @ \ {st.hook.playerRef}]]
  ELSE LET r == Len(st.runs) + 1 IN
       [hook |-> [st.hook EXCEPT !.accessToken = token, !.current = r],
        runs |-> Append(st.runs,
                        [mounted |-> TRUE,
                         pc |-> IF st.sdk.loaded THEN "connect" ELSE "load"]),
        sdk  |-> LoadSpotifySDK(st.sdk, r)]

PlayerState == [hook |-> hook, runs |-> runs, sdk |-> sdk]

PlayerBecomes(st) ==
  /\ hook' = st.hook
  /\ runs' = st.runs
  /\ sdk' = st.sdk

\* The component mounts: the effect runs with the null token.
PlayerMount ==
  /\ hook.phase = "new"
  /\ PlayerBecomes(AfterEffect([PlayerState EXCEPT !.hook.phase = "mounted"],
                               hook.accessToken))
  /\ UNCHANGED <<viewVars, authVars, plays, vol, yt>>

\* The accessToken prop changes: the cleanup of the previous run, then the
\* effect with the new token.
TokenChange(token) ==
  /\ hook.phase = "mounted"
  /\ token # hook.accessToken
  /\ token # NoToken => Len(runs) < MaxRuns
  /\ PlayerBecomes(AfterEffect(AfterCleanup(PlayerState), token))
  /\ UNCHANGED <<viewVars, authVars, plays, vol, yt>>

\* The component unmounts: the cleanup of the current run.
PlayerUnmount ==
  /\ hook.phase = "mounted"
  /\ PlayerBecomes(AfterCleanup([PlayerState EXCEPT !.hook.phase = "unmounted"]))
  /\ UNCHANGED <<viewVars, authVars, plays, vol, yt>>

\* What initPlayer does after "await loadSpotifySDK()": it returns when the
\* run was cleaned up, else it creates the player and calls connect().
AfterLoad(isMounted) == IF isMounted THEN "connect" ELSE "done"

\* The SDK script has loaded and calls window.onSpotifyWebPlaybackSDKReady:
\* the run that registered last resumes.
SdkLoads ==
  /\ ~sdk.loaded
  /\ sdk.waiter # 0
  /\ sdk' = [sdk EXCEPT !.loaded = TRUE]
  /\ runs' = [runs EXCEPT ![sdk.waiter].pc = AfterLoad(runs[sdk.waiter].mounted)]
  /\ UNCHANGED <<viewVars, authVars, hook, plays, vol, yt>>

\* What "await player.connect(); playerRef.current = player" leaves in
\* playerRef for the player of run r.
AfterConnect(ref, r, isMounted) == r

\* player.connect() of run r resolves, connected or not.
ConnectResolves(r, ok) ==
  /\ r \in DOMAIN runs
  /\ runs[r].pc = "connect"
  /\ runs' = [runs EXCEPT ![r].pc = "done"]
  /\ sdk' = [sdk EXCEPT !.connected = IF ok THEN @ \cup {r} ELSE @]
  /\ hook' = [hook EXCEPT !.playerRef = AfterConnect(@, r, runs[r].mounted)]
  /\ UNCHANGED <<viewVars, authVars, plays, vol, yt>>

\* The "ready" listener of player p.
ReadyEvent(p) ==
  /\ hook.phase = "mounted"
  /\ p \in sdk.connected
  /\ hook' = IF runs[p].mounted
             THEN [hook EXCEPT !.deviceId = p, !.isReady = TRUE, !.error = FALSE]
             ELSE hook
  /\ UNCHANGED <<viewVars, authVars, runs, sdk, plays, vol, yt>>

\* The "not_ready" listener of player p.
NotReadyEvent(p) ==
  /\ hook.phase = "mounted"
  /\ p \in sdk.connected
  /\ hook' = IF runs[p].mounted THEN [hook EXCEPT !.isReady = FALSE] ELSE hook
  /\ UNCHANGED <<viewVars, authVars, runs, sdk, plays, vol, yt>>

\* The "player_state_changed" listener of player p; state is null or not.
StateChangedEvent(p, hasState) ==
  /\ hook.phase = "mounted"
  /\ p \in sdk.connected
  /\ hook' = IF ~runs[p].mounted \/ ~hasState
             THEN [hook EXCEPT !.isActive = FALSE]
             ELSE [hook EXCEPT !.isActive = TRUE, !.playerState = TRUE]
  /\ UNCHANGED <<viewVars, authVars, runs, sdk, plays, vol, yt>>

\* One of the four error listeners of player p.
ErrorEvent(p) ==
  /\ hook.phase = "mounted"
  /\ p \in DOMAIN runs
  /\ runs[p].pc = "connect" \/ p \in sdk.connected
  /\ hook' = [hook EXCEPT !.error = TRUE]
  /\ UNCHANGED <<viewVars, authVars, runs, sdk, plays, vol, yt>>

\* play() returns before its request unless it has a token and a device.
SendsPlay(token, device) == token # NoToken /\ device # 0

\* play() is called.
Play ==
  /\ hook.phase = "mounted"
  /\ plays < MaxPlays
  /\ plays' = IF SendsPlay(hook.accessToken, hook.deviceId) THEN plays + 1 ELSE plays
  /\ UNCHANGED <<viewVars, authVars, hook, runs, sdk, vol, yt>>

InitPlayer ==
  /\ ViewCounterInit /\ variant = "O" /\ initial = 0
  /\ AuthAbsent /\ VolumeAbsent /\ YouTubeAbsent
  /\ PlayerInit

NextPlayer ==
  \/ PlayerMount
  \/ \E token \in Tokens \cup {NoToken} : TokenChange(token)
  \/ PlayerUnmount
  \/ SdkLoads
  \/ \E r \in 1..MaxRuns : \E ok \in BOOLEAN : ConnectResolves(r, ok)
  \/ \E p \in 1..MaxRuns : ReadyEvent(p)
  \/ \E p \in 1..MaxRuns : NotReadyEvent(p)
  \/ \E p \in 1..MaxRuns : \E hasState \in BOOLEAN : StateChangedEvent(p, hasState)
  \/ \E p \in 1..MaxRuns : ErrorEvent(p)
  \/ Play

SpecPlayer == InitPlayer /\ [][NextPlayer]_vars

\* C23: once the cleanup of a run of the initialization effect has run, the
\* player that run created is not connected and playerRef does not hold it,
\* whatever the run was doing when the cleanup came.
C23_NoPlayerSurvivesCleanup ==
  \A r \in DOMAIN runs :
     ~runs[r].mounted => (r \notin sdk.connected /\ hook.playerRef # r)

\* C28: whenever the hook's accessToken is null and the effect has run for
\* it, isReady and isActive are false, deviceId is null and playerRef is
\* null; and play() sends a request only when accessToken and deviceId are
\* both non-null.
C28_NoTokenNoPlayer ==
  /\ [](hook.phase = "mounted" /\ hook.accessToken = NoToken =>
           /\ ~hook.isReady
           /\ ~hook.isActive
           /\ hook.deviceId = 0
           /\ hook.playerRef = 0)
  /\ [][plays' # plays => hook.accessToken # NoToken /\ hook.deviceId # 0]_vars

\* ------------------------------------------------------------------------
\* useSpotifyAuth (hooks/useSpotifyAuth.ts): sign-in with the authorization
\* code flow.  localStorage holds the four items of STORAGE_KEYS; "null"
\* and <<>> stand for an item that is not there.
\* ------------------------------------------------------------------------

Epoch == 8            \* Date.now() when the page loads
MaxTicks == 2         \* clock ticks after the page load
ExpiresIn == 1        \* expires_in * 1000 of a token response

\* Number.prototype.toString: the decimal digits of n.
RECURSIVE NumberToString(_)
NumberToString(n) == IF n < 10 THEN <<n>> ELSE Append(NumberToString(n \div 10), n % 10)

\* parseInt(s, 10) of a string of decimal digits.
RECURSIVE ParseInt(_)
ParseInt(s) ==
  IF Len(s) = 1 THEN s[1]
  ELSE 10 * ParseInt(SubSeq(s, 1, Len(s) - 1)) + s[Len(s)]

\* The mount effect adopts the stored token when Date.now() < expiryTime.
Unexpired_always(t, expiryTime) == TRUE

Unexpired(t, expiryTime) == t < expiryTime

\* exchangeCodeForToken goes on to its request when the verifier is stored.
VerifierFound_always(codeVerifier) == TRUE

VerifierFound(codeVerifier) == codeVerifier # "null"

NoStorage == [accessToken |-> NoToken, refreshToken |-> NoToken,
              tokenExpiry |-> <<>>, codeVerifier |-> "null"]

\* clearTokens: the four removeItem calls.
ClearTokens(ls) ==
  [ls EXCEPT !.accessToken = NoToken, !.refreshToken = NoToken,
             !.tokenExpiry = <<>>, !.codeVerifier = "null"]

\* saveTokens: the setItem calls at time t.
SaveTokens(ls, data, t) ==
  [ls EXCEPT !.accessToken = data.access_token,
             !.tokenExpiry = NumberToString(t + data.expires_in),
             !.refreshToken = IF data.refresh_token # NoToken
                              THEN data.refresh_token ELSE @]

\* The bodies of the successful token responses to a grant.
Responses(grant) ==
  {[access_token |-> grant, refresh_token |-> r, expires_in |-> ExpiresIn] :
      r \in {NoToken, "rotated"}}

\* What a page load can find in localStorage: nothing, or what saveTokens
\* left there, and the verifier of a login or none.
StoredStates ==
  {[NoStorage EXCEPT !.codeVerifier = v] : v \in {"null", "verifier"}}
  \cup
  {[accessToken |-> "stored", refreshToken |-> r,
    tokenExpiry |-> NumberToString(e), codeVerifier |-> v] :
      r \in {NoToken, "refresh"}, e \in Epoch..(Epoch + MaxTicks),
      v \in {"null", "verifier"}}

AuthInit ==
  /\ localStorage \in StoredStates
  /\ url \in {"none", "code", "error"}
  /\ now = Epoch
  /\ auth = [phase |-> "new", accessToken |-> NoToken, isLoading |-> TRUE,
             error |-> "null", refresh |-> "none", exchange |-> "none",
             loggedOut |-> FALSE]

\* Time passes.
Tick ==
  /\ auth.phase \in {"new", "mounted", "leaving"}
  /\ now < Epoch + MaxTicks
  /\ now' = now + 1
  /\ UNCHANGED <<viewVars, localStorage, url, auth, playerVars, vol, yt>>

\* The first effect: check for an existing token on mount.
AuthMount ==
  /\ auth.phase = "new"
  /\ LET storedToken == localStorage.accessToken
         tokenExpiry == localStorage.tokenExpiry
         a == [auth EXCEPT !.phase = "callback"]
     IN  IF storedToken # NoToken /\ tokenExpiry # <<>>
         THEN IF Unexpired(now, ParseInt(tokenExpiry))
              THEN /\ auth' = [a EXCEPT !.accessToken = storedToken,
                                        !.isLoading = FALSE]
                   /\ UNCHANGED localStorage
              ELSE IF localStorage.refreshToken # NoToken
              THEN /\ auth' = [a EXCEPT !.refresh = "pending"]
                   /\ UNCHANGED localStorage
              ELSE /\ auth' = [a EXCEPT !.accessToken = NoToken,
                                        !.isLoading = FALSE]
                   /\ localStorage' = ClearTokens(localStorage)
         ELSE /\ auth' = [a EXCEPT !.isLoading = FALSE]
              /\ UNCHANGED localStorage
  /\ UNCHANGED <<viewVars, url, now, playerVars, vol, yt>>

\* The second effect: handleCallback up to its first await.
AuthCallback ==
  /\ auth.phase = "callback"
  /\ LET a == [auth EXCEPT !.phase = "mounted"]
     IN  CASE url = "error" ->
                /\ auth' = [a EXCEPT !.error = "access_denied",
                                     !.isLoading = FALSE]
                /\ url' = "none"
           [] url = "code" /\ VerifierFound(localStorage.codeVerifier) ->
                /\ auth' = [a EXCEPT !.isLoading = TRUE, !.exchange = "pending"]
                /\ url' = url
           [] url = "code" /\ ~VerifierFound(localStorage.codeVerifier) ->
                /\ auth' = [a EXCEPT !.error = "Code verifier not found",
                                     !.isLoading = FALSE, !.exchange = "threw"]
                /\ url' = "none"
           [] OTHER ->
                /\ auth' = a
                /\ url' = url
  /\ UNCHANGED <<viewVars, localStorage, now, playerVars, vol, yt>>

\* The token request of exchangeCodeForToken returns; handleCallback ends.
ExchangeReturns(ok) ==
  /\ auth.phase \in {"mounted", "leaving"}
  /\ auth.exchange = "pending"
  /\ IF ok
     THEN \E data \in Responses("exchanged") :
            /\ localStorage' = [SaveTokens(localStorage, data, now)
                                  EXCEPT !.codeVerifier = "null"]
            /\ auth' = [auth EXCEPT !.accessToken = data.access_token,
                                    !.error = "null", !.isLoading = FALSE,
                                    !.exchange = "ok"]
     ELSE /\ auth' = [auth EXCEPT !.error = "Token exchange failed",
                                  !.isLoading = FALSE, !.exchange = "failed"]
          /\ UNCHANGED localStorage
  /\ url' = "none"
  /\ UNCHANGED <<viewVars, now, playerVars, vol, yt>>

\* The token request of refreshAccessToken returns.
RefreshReturns(ok) ==
  /\ auth.phase \in {"mounted", "leaving"}
  /\ auth.refresh = "pending"
  /\ IF ok
     THEN \E data \in Responses("refreshed") :
            /\ localStorage' = SaveTokens(localStorage, data, now)
            /\ auth' = [auth EXCEPT !.accessToken = data.access_token,
                                    !.error = "null", !.isLoading = FALSE,
                                    !.refresh = "ok"]
     ELSE /\ localStorage' = ClearTokens(localStorage)
          /\ auth' = [auth EXCEPT !.accessToken = NoToken,
                                  !.isLoading = FALSE, !.refresh = "failed"]
  /\ UNCHANGED <<viewVars, url, now, playerVars, vol, yt>>

\* logout(), from the Disconnect button the player shows when authenticated.
Logout ==
  /\ auth.phase \in {"mounted", "leaving"}
  /\ auth.accessToken # NoToken
  /\ localStorage' = ClearTokens(localStorage)
  /\ auth' = [auth EXCEPT !.accessToken = NoToken, !.loggedOut = TRUE]
  /\ UNCHANGED <<viewVars, url, now, playerVars, vol, yt>>

\* login(), from the Connect button shown when not authenticated and
\* enabled when not loading: up to "await sha256(codeVerifier)".
Login ==
  /\ auth.phase = "mounted"
  /\ auth.accessToken = NoToken
  /\ ~auth.isLoading
  /\ localStorage' = [localStorage EXCEPT !.codeVerifier = "verifier"]
  /\ auth' = [auth EXCEPT !.phase = "leaving", !.isLoading = TRUE,
                          !.error = "null", !.loggedOut = FALSE]
  /\ UNCHANGED <<viewVars, url, now, playerVars, vol, yt>>

\* login() sets window.location.href: the page is left.
Navigate ==
  /\ auth.phase = "leaving"
  /\ auth' = [auth EXCEPT !.phase = "left"]
  /\ UNCHANGED <<viewVars, localStorage, url, now, playerVars, vol, yt>>

InitAuth ==
  /\ ViewCounterInit /\ variant = "O" /\ initial = 0
  /\ PlayerAbsent /\ VolumeAbsent /\ YouTubeAbsent
  /\ AuthInit

NextAuth ==
  \/ Tick
  \/ AuthMount
  \/ AuthCallback
  \/ \E ok \in BOOLEAN : ExchangeReturns(ok)
  \/ \E ok \in BOOLEAN : RefreshReturns(ok)
  \/ Logout
  \/ Login
  \/ Navigate

SpecAuth == InitAuth /\ [][NextAuth]_vars

\* All four items of STORAGE_KEYS are absent.
KeysAbsent == localStorage = NoStorage

\* C24: after logout() the four storage keys are absent and isAuthenticated
\* is false, and this stays so until login() is called again, also when a
\* refresh or an exchange started at mount was in flight at the logout.
C24_LogoutStays ==
  auth.phase # "absent" /\ auth.loggedOut =>
     KeysAbsent /\ auth.accessToken = NoToken

\* A refresh or an exchange started at mount is still pending.
RequestPending == auth.refresh = "pending" \/ auth.exchange = "pending"

\* C25: on the mounted page, for every stored state, URL and outcome of
\* the token requests, isLoading is false once every request has completed,
\* and isLoading is false only when no refresh or exchange started at
\* mount is still pending.
C25_LoadingUntilSettled ==
  auth.phase = "mounted" =>
     /\ ~RequestPending => ~auth.isLoading
     /\ ~auth.isLoading => ~RequestPending

\* The mount effect runs in this step.
MountStep == auth.phase = "new" /\ auth'.phase # "new"

\* The stored expiry is the decimal string of a time after now.
ExpiryInFuture ==
  \E e \in (now + 1)..(Epoch + MaxTicks + ExpiresIn) :
     localStorage.tokenExpiry = NumberToString(e)

\* C26: the mount effect adopts a stored access token only when the stored
\* expiry is in the future; a stored token that is expired, with no
\* refresh token, and a refresh that fails, both leave the four storage
\* keys absent and accessToken null; and no step sets accessToken to a
\* stored token whose expiry is not in the future.
C26_AdoptOnlyUnexpired ==
  /\ [][MountStep =>
          /\ auth'.accessToken # NoToken =>
                /\ auth'.accessToken = localStorage.accessToken
                /\ ExpiryInFuture
          /\ (/\ localStorage.accessToken # NoToken
              /\ localStorage.tokenExpiry # <<>>
              /\ ~ExpiryInFuture
              /\ localStorage.refreshToken = NoToken) =>
                KeysAbsent' /\ auth'.accessToken = NoToken]_vars
  /\ [][(auth.refresh = "pending" /\ auth'.refresh = "failed") =>
          KeysAbsent' /\ auth'.accessToken = NoToken]_vars
  /\ [][(auth'.accessToken # auth.accessToken
          /\ auth'.accessToken = localStorage.accessToken
          /\ auth'.accessToken # NoToken) => ExpiryInFuture]_vars

\* A token stored with the two-digit expiry 10 was adopted at time 9.
C26_Witness ==
  /\ auth.phase = "mounted"
  /\ auth.accessToken = "stored"
  /\ localStorage.accessToken = "stored"
  /\ localStorage.tokenExpiry = <<1, 0>>
  /\ now = 9

\* The callback effect runs in this step with a code in the URL and no
\* code verifier in localStorage.
CodeWithoutVerifier ==
  /\ auth.phase = "callback" /\ auth'.phase = "mounted"
  /\ url = "code"
  /\ localStorage.codeVerifier = "null"

\* In that case no token request is sent, nothing is stored, error is
\* "Code verifier not found" and isAuthenticated is what it was.
NoVerifierNoRequest ==
  [][CodeWithoutVerifier =>
        /\ auth'.exchange # "pending"
        /\ localStorage' = localStorage
        /\ auth'.error = "Code verifier not found"
        /\ (auth'.accessToken # NoToken) = (auth.accessToken # NoToken)]_vars

\* The stored code verifier is removed in this step.
VerifierRemoved ==
  localStorage.codeVerifier # "null" /\ localStorage'.codeVerifier = "null"

\* The exchange completes in this step, successfully or not.
ExchangeSucceeds == auth.exchange = "pending" /\ auth'.exchange = "ok"
ExchangeFails == auth.exchange = "pending" /\ auth'.exchange = "failed"

\* C27 as stated: with a code and no stored verifier the callback sends no
\* request, stores nothing, sets error "Code verifier not found" and
\* leaves isAuthenticated; the stored verifier is removed only by a
\* successful exchange and is kept when the exchange fails.
C27_VerifierOnlyAfterExchange ==
  /\ NoVerifierNoRequest
  /\ [][VerifierRemoved => ExchangeSucceeds]_vars
  /\ [][ExchangeFails => localStorage'.codeVerifier = localStorage.codeVerifier]_vars

\* C27: with a code and no stored verifier the callback sends no request,
\* stores nothing, sets error "Code verifier not found" and leaves
\* isAuthenticated; the stored verifier is removed only by a successful
\* exchange or by clearTokens (logout, a failed refresh, an expired token
\* without refresh token at mount), which removes all four keys; a failed
\* exchange keeps it.
C27_VerifierExchangeOrClear ==
  /\ NoVerifierNoRequest
  /\ [][VerifierRemoved =>
          \/ ExchangeSucceeds
          \/ KeysAbsent' /\ auth'.accessToken = NoToken]_vars
  /\ [][ExchangeFails => localStorage'.codeVerifier = localStorage.codeVerifier]_vars

\* The callback found a code and no verifier: it threw before any request.
C27_Witness ==
  /\ auth.phase = "mounted"
  /\ auth.exchange = "threw"
  /\ auth.error = "Code verifier not found"
  /\ url = "none"

\* ------------------------------------------------------------------------
\* SpotifyPlayer (components/SpotifyPlayer.tsx): the volume control.  The
\* slider gives percents; the player's setVolume takes percent / 100, kept
\* here as a fraction in lowest terms.
\* ------------------------------------------------------------------------

SliderMax == 100      \* max of the volume Slider
VolumeStep == 25      \* the slider positions tried are the multiples of it

SliderValues == {v \in 0..SliderMax : v % VolumeStep = 0}

RECURSIVE GCD(_, _)
GCD(a, b) == IF b = 0 THEN a ELSE GCD(b, a % b)

\* The number n / d.
Quotient(n, d) == LET g == GCD(n, d) IN <<n \div g, d \div g>>

\* toggleMute, muting: the volume it keeps for the way back.
SavedVolume_stale(volume, previousVolume) == previousVolume

SavedVolume(volume, previousVolume) == volume

\* What the claims look at in a state of the control.
VolumeSnapshot(v) == [volume |-> v.volume, isMuted |-> v.isMuted, passed |-> v.passed]

\* useState(50), useState(false), useState(50); the player was created
\* with the default volume 0.5 of useSpotifyPlayer.
VolumeInit ==
  vol = [phase |-> "ready", volume |-> 50, isMuted |-> FALSE,
         previousVolume |-> 50, passed |-> Quotient(1, 2),
         toggles |-> 0,
         before |-> [volume |-> 50, isMuted |-> FALSE, passed |-> Quotient(1, 2)],
         between |-> [volume |-> 50, isMuted |-> FALSE, passed |-> Quotient(1, 2)]]

\* handleVolumeChange([newVolume]).
HandleVolumeChange(newVolume) ==
  /\ vol.phase = "ready"
  /\ vol' = [vol EXCEPT !.volume = newVolume,
                        !.passed = Quotient(newVolume, 100),
                        !.isMuted = IF newVolume > 0 THEN FALSE ELSE @,
                        !.toggles = 0]
  /\ UNCHANGED <<viewVars, authVars, playerVars, yt>>

\* toggleMute().  toggles counts the toggleMute calls since the last
\* handleVolumeChange, up to two; before and between are the states before
\* the last two of them.
ToggleMute ==
  /\ vol.phase = "ready"
  /\ LET v == IF vol.isMuted
              THEN [vol EXCEPT !.volume = vol.previousVolume,
                               !.passed = Quotient(vol.previousVolume, 100),
                               !.isMuted = FALSE]
              ELSE [vol EXCEPT !.previousVolume = SavedVolume(vol.volume, @),
                               !.volume = 0,
                               !.passed = Quotient(0, 1),
                               !.isMuted = TRUE]
     IN  vol' = [v EXCEPT !.toggles = IF @ < 2 THEN @ + 1 ELSE 2,
                          !.before = vol.between,
                          !.between = VolumeSnapshot(vol)]
  /\ UNCHANGED <<viewVars, authVars, playerVars, yt>>

InitVolume ==
  /\ ViewCounterInit /\ variant = "O" /\ initial = 0
  /\ AuthAbsent /\ PlayerAbsent /\ YouTubeAbsent
  /\ VolumeInit

NextVolume ==
  \/ \E newVolume \in SliderValues : HandleVolumeChange(newVolume)
  \/ ToggleMute

SpecVolume == InitVolume /\ [][NextVolume]_vars

\* C29: after any sequence of handleVolumeChange and toggleMute calls,
\* isMuted implies volume = 0; and when toggleMute has just been called
\* twice in a row, the first time in an unmuted state, the volume state and
\* the value passed to setVolume are those of before the first call.
C29_MuteRoundTrip ==
  vol.phase = "ready" =>
     /\ vol.isMuted => vol.volume = 0
     /\ (vol.toggles = 2 /\ ~vol.before.isMuted) =>
           /\ vol.volume = vol.before.volume
           /\ vol.passed = vol.before.passed
           /\ ~vol.isMuted

\* The slider was set to a volume other than the initial one, then
\* toggleMute was called twice: muted at 0 in between, and back.
C29_Witness ==
  /\ vol.phase = "ready"
  /\ vol.toggles = 2
  /\ ~vol.before.isMuted /\ vol.before.volume > 0 /\ vol.before.volume # 50
  /\ vol.between.isMuted /\ vol.between.volume = 0 /\ vol.between.passed = <<0, 1>>
  /\ vol.volume = vol.before.volume
  /\ vol.passed = Quotient(vol.before.volume, 100)

\* ------------------------------------------------------------------------
\* YouTubeMusicPlayer (part_006): the volume control and the YT player.
\* ------------------------------------------------------------------------

YouTubeSliderMax == 100     \* max of the volume Slider

\* "volume || 50": 0 is falsy.
OrFifty(volume) == IF volume = 0 THEN 50 ELSE volume

\* The player is ready: useState(50), useState(false), and onReady has
\* called setVolume(50) on the player.
YouTubeInit ==
  yt = [phase |-> "ready", volume |-> 50, isMuted |-> FALSE,
        playerVolume |-> 50, playerMuted |-> FALSE]

\* handleVolumeChange([newVolume]) with playerRef.current set.
YouTubeHandleVolumeChange(newVolume) ==
  /\ yt.phase = "ready"
  /\ yt' = IF newVolume > 0 /\ yt.isMuted
           THEN [yt EXCEPT !.volume = newVolume, !.playerVolume = newVolume,
                           !.playerMuted = FALSE, !.isMuted = FALSE]
           ELSE [yt EXCEPT !.volume = newVolume, !.playerVolume = newVolume]
  /\ UNCHANGED <<viewVars, authVars, playerVars, vol>>

\* toggleMute() with playerRef.current set.
YouTubeToggleMute ==
  /\ yt.phase = "ready"
  /\ yt' = IF yt.isMuted
           THEN [yt EXCEPT !.playerMuted = FALSE,
                           !.playerVolume = OrFifty(yt.volume),
                           !.isMuted = FALSE]
           ELSE [yt EXCEPT !.playerMuted = TRUE, !.isMuted = TRUE]
  /\ UNCHANGED <<viewVars, authVars, playerVars, vol>>

InitYouTube ==
  /\ ViewCounterInit /\ variant = "O" /\ initial = 0
  /\ AuthAbsent /\ PlayerAbsent /\ VolumeAbsent
  /\ YouTubeInit

NextYouTube ==
  \/ \E newVolume \in 0..YouTubeSliderMax : YouTubeHandleVolumeChange(newVolume)
  \/ YouTubeToggleMute

SpecYouTube == InitYouTube /\ [][NextYouTube]_vars

\* C30: after any sequence of handleVolumeChange and toggleMute calls on a
\* ready player, whenever isMuted is false the volume state, which the
\* slider then shows, equals the volume last set on the player.
C30_SliderShowsPlayerVolume ==
  (yt.phase = "ready" /\ ~yt.isMuted) => yt.volume = yt.playerVolume
====
